---------------------------- MODULE Spec2Model ----------------------------
(***************************************************************************)
(* FluMatch: tabulation of parsed BLAST results (tabulate_hsp_xml) and the *)
(* tab-delimited report written from it (blast_report), flumatch.py.       *)
(*                                                                         *)
(* Text is a sequence of one-character strings.  A Python float is a       *)
(* record [neg, num, den, exp] standing for (-1)^neg * (num/den) * 10^exp, *)
(* den > 0, so that a negative zero is kept apart from a positive zero as  *)
(* the host does.  The inputs are restricted to quotients whose decimal    *)
(* expansion ends (Finite), where the float is exactly the rational and    *)
(* repr() is its decimal expansion.                                        *)
(***************************************************************************)
EXTENDS Integers, Sequences, FiniteSets, TLC

VARIABLES
    num_top_results, \* args.top_hits, the third parameter of blast_report
    taken,           \* the records the loop 'for res in result' has drawn so far
    ai,              \* alignments of the current record already gone through
    pc,              \* where blast_report stands
    hsp,             \* the loop variable of blast_report: the tuple just yielded
    emitted,         \* every tuple tabulate_hsp_xml has yielded, with its origin
    file,            \* the destination: the text of each write, in order
    err              \* the exception that left blast_report, or NoError

vars == <<num_top_results, taken, ai, pc, hsp, emitted, file, err>>

---------------------------------------------------------------------------
(* Bounds of the model *)

MaxQueries == 2
MaxAlignments == 3
MaxTop == 2
MaxLen == 4
MaxIdLen == 2

---------------------------------------------------------------------------
(* Text *)

TAB == "\t"
QUOTE == "\""
CR == "\r"
LF == "\n"

Abs(n) == IF n < 0 THEN 0 - n ELSE n

Min(a, b) == IF a < b THEN a ELSE b

Max(a, b) == IF a < b THEN b ELSE a

Digits == <<"0", "1", "2", "3", "4", "5", "6", "7", "8", "9">>

RECURSIVE NatStr(_)
NatStr(n) ==
    IF n < 10 THEN <<Digits[n + 1]>>
    ELSE NatStr(n \div 10) \o <<Digits[(n % 10) + 1]>>

\* str() of a Python int
IntStr(n) == IF n < 0 THEN <<"-">> \o NatStr(0 - n) ELSE NatStr(n)

\* the float of a Python int
IntFloat(n) == [neg |-> n < 0, num |-> Abs(n), den |-> 1, exp |-> 0]

\* x * y and x / y on floats of exponent 0; a zero divisor is the caller's case
FloatMul(x, y) ==
    [neg |-> x.neg # y.neg, num |-> x.num * y.num, den |-> x.den * y.den,
     exp |-> 0]

FloatDiv(x, y) ==
    [neg |-> x.neg # y.neg, num |-> x.num * y.den, den |-> x.den * y.num,
     exp |-> 0]

FloatAbs(x) == [x EXCEPT !.neg = FALSE]

Hundred == [neg |-> FALSE, num |-> 100, den |-> 1, exp |-> 0]

\* the decimal expansion of num/den ends within three places
Finite(num, den) == den # 0 /\ (Abs(num) * 1000) % Abs(den) = 0

RECURSIVE FracStr(_, _)
FracStr(r, den) ==
    IF r = 0 THEN <<>>
    ELSE <<Digits[((r * 10) \div den) + 1]>> \o FracStr((r * 10) % den, den)

\* repr() of a Python float: positional with at least one decimal place, or
\* mantissa and two-digit exponent for the small e-values
FloatRepr(x) ==
    LET sign == IF x.neg THEN <<"-">> ELSE <<>>
        ip == x.num \div x.den
        r == x.num % x.den
    IN  IF x.exp = 0
        THEN sign \o NatStr(ip) \o <<".">> \o
             (IF r = 0 THEN <<"0">> ELSE FracStr(r, x.den))
        ELSE sign \o NatStr(ip) \o <<"e", "-">> \o
             (IF Abs(x.exp) < 10 THEN <<"0">> ELSE <<>>) \o NatStr(Abs(x.exp))

HasSpecial(s) == \E i \in 1..Len(s) : s[i] \in {TAB, QUOTE, CR, LF}

RECURSIVE DoubleQuotes(_)
DoubleQuotes(s) ==
    IF s = <<>> THEN <<>>
    ELSE (IF Head(s) = QUOTE THEN <<QUOTE, QUOTE>> ELSE <<Head(s)>>)
         \o DoubleQuotes(Tail(s))

\* QUOTE_ALL: every field quoted
QuoteAll(s) == <<QUOTE>> \o DoubleQuotes(s) \o <<QUOTE>>

\* csv.writer, QUOTE_MINIMAL: a field holding the delimiter, the quote
\* character or a character of the line terminator is quoted, its quotes doubled
QuoteField(s) ==
    IF HasSpecial(s) THEN <<QUOTE>> \o DoubleQuotes(s) \o <<QUOTE>> ELSE s

RECURSIVE JoinFields(_)
JoinFields(fs) ==
    IF Len(fs) = 0 THEN <<>>
    ELSE IF Len(fs) = 1 THEN QuoteField(fs[1])
    ELSE QuoteField(fs[1]) \o <<TAB>> \o JoinFields(Tail(fs))

\* csv.writer(f, delimiter='\t').writerow(fields): the text of one write
writerow(fs) == JoinFields(fs) \o <<CR, LF>>


---------------------------------------------------------------------------
(* The parsed BLAST records: res (query, query_length, alignments), aln     *)
(* (hit_def, length, hsps) and hsp (identities, align_length, the four      *)
(* coordinates, expect), as tabulate_hsp_xml reads them                     *)

Tiny == [neg |-> FALSE, num |-> 1, den |-> 1, exp |-> 0 - 50]

ZeroFloat == [neg |-> FALSE, num |-> 0, den |-> 1, exp |-> 0]

HSP(i, al, c, e) ==
    [identities |-> i, align_length |-> al, query_start |-> c,
     query_end |-> c + 1, sbjct_start |-> c + 2, sbjct_end |-> c + 3,
     expect |-> e]

SeqsUpTo(S, n) == UNION {[1..k -> S] : k \in 0..n}

\* Stream family: up to MaxAlignments alignments in all, of three kinds: one
\* good segment; a good first segment followed by a degenerate one; a first
\* segment of alignment length 0 followed by a good one
StreamAlignments ==
    { [hit_def |-> <<"s", "1">>, length |-> 7, hsps |-> <<HSP(1, 2, 1, Tiny)>>],
      [hit_def |-> <<"s", "2">>, length |-> 9,
       hsps |-> <<HSP(2, 2, 5, ZeroFloat), HSP(0, 0, 1, Tiny)>>],
      [hit_def |-> <<"s", "3">>, length |-> 7,
       hsps |-> <<HSP(0, 0, 1, Tiny), HSP(1, 2, 1, Tiny)>>] }

StreamRecords ==
    [query : {<<"q", "1">>, <<"q", "2">>}, query_length : {4},
     alignments : SeqsUpTo(StreamAlignments, MaxAlignments)]

\* Number family: one alignment of one segment, the three lengths and the
\* identities ranging over -MaxLen..MaxLen (identities from 0)
Lens == (0 - MaxLen)..MaxLen

NumRecords ==
    { [query |-> <<"q">>, query_length |-> ql,
       alignments |-> <<[hit_def |-> <<"s">>, length |-> 7,
                         hsps |-> <<HSP(i, al, 1, e)>>]>>] :
        <<i, al, ql, e>> \in
            { t \in (0..MaxLen) \X Lens \X Lens \X {Tiny, ZeroFloat} :
                /\ t[2] # 0 => Finite(100 * t[1], t[2])
                /\ t[3] # 0 => Finite(100 * t[2], t[3]) } }

\* Text family: the two identifiers range over the texts of up to MaxIdLen
\* characters, among them the delimiter, the quote and the line ends
IdChars == {"a", TAB, QUOTE, CR, LF}

Idents == SeqsUpTo(IdChars, MaxIdLen)

TextRecords ==
    { [query |-> q, query_length |-> 4,
       alignments |-> <<[hit_def |-> s, length |-> 7,
                         hsps |-> <<HSP(1, al, 1, Tiny)>>]>>] :
        <<q, s, al>> \in Idents \X Idents \X {2} }

\* what the report run draws from: the texts and the numbers
ReportRecords == TextRecords \cup NumRecords

Tops == (0 - 1)..MaxTop

---------------------------------------------------------------------------
(* tabulate_hsp_xml *)

\* a slice that takes one element too many
SliceOffByOne(s, n) == SubSeq(s, 1, Min(n + 1, Len(s)))

\* list[0:n]
Slice(s, n) ==
    IF n >= 0 THEN SubSeq(s, 1, Min(n, Len(s)))
    ELSE SubSeq(s, 1, Max(Len(s) + n, 0))

\* the exception of a float division by an int 0
ZeroDivisionError ==
    [type |-> "ZeroDivisionError",
     msg |-> <<"f", "l", "o", "a", "t", " ", "d", "i", "v", "i", "s", "i",
               "o", "n", " ", "b", "y", " ", "z", "e", "r", "o">>]

NoError == [type |-> "None", msg |-> <<>>]

\* the alignments the inner loop goes through for a record
Selected(res) == Slice(res.alignments, num_top_results)

\* the last segment instead of the first
LastHsp(aln) == aln.hsps[Len(aln.hsps)]

\* hsp = aln.hsps[0]
FirstHsp(aln) == aln.hsps[1]

\* the fraction instead of the percentage
identity_fraction(res, aln) ==
    FloatDiv(IntFloat(FirstHsp(aln).identities),
             IntFloat(FirstHsp(aln).align_length))

\* 100. * identities / align_length
identity_perc(res, aln) ==
    FloatDiv(FloatMul(Hundred, IntFloat(FirstHsp(aln).identities)),
             IntFloat(FirstHsp(aln).align_length))

\* the coverage without abs()
query_cov_signed(res, aln) ==
    FloatDiv(FloatMul(Hundred, IntFloat(FirstHsp(aln).align_length)),
             IntFloat(res.query_length))

\* abs(100. * align_length / query_length)
query_cov(res, aln) ==
    FloatAbs(FloatDiv(FloatMul(Hundred, IntFloat(FirstHsp(aln).align_length)),
                      IntFloat(res.query_length)))

\* every selected alignment of the record checked before the first is yielded
RaisesEager(res, aln) ==
    \/ res.query_length = 0
    \/ \E i \in 1..Len(Selected(res)) :
           FirstHsp(Selected(res)[i]).align_length = 0

\* the two divisions raise on a zero divisor; nothing else in the body does
Raises(res, aln) ==
    FirstHsp(aln).align_length = 0 \/ res.query_length = 0

\* the tuple yielded for one alignment of one record
Row(res, aln) ==
    <<res.query,
      aln.hit_def,
      query_cov(res, aln),
      identity_perc(res, aln),
      FirstHsp(aln).identities,
      FirstHsp(aln).align_length,
      FirstHsp(aln).query_start,
      FirstHsp(aln).query_end,
      FirstHsp(aln).sbjct_start,
      FirstHsp(aln).sbjct_end,
      res.query_length,
      aln.length,
      FirstHsp(aln).expect>>

\* the inner loop has gone through its slice (or no record is drawn yet)
SliceDone ==
    IF taken = <<>> THEN TRUE ELSE ai = Len(Selected(taken[Len(taken)]))

---------------------------------------------------------------------------
(* blast_report *)

\* the header with two columns exchanged
headersSwapped ==
    << <<"Q", "u", "e", "r", "y">>,
       <<"M", "a", "t", "c", "h", "i", "n", "g", " ", "S", "t", "r", "a", "i", "n">>,
       <<"P", "e", "r", "c", "e", "n", "t", " ", "I", "D">>,
       <<"Q", "u", "e", "r", "y", " ", "C", "o", "v", "e", "r", "a", "g", "e">>,
       <<"I", "d", "e", "n", "t", "i", "t", "i", "e", "s">>,
       <<"A", "l", "i", "g", "n", "m", "e", "n", "t", " ", "L", "e", "n", "g", "t", "h">>,
       <<"Q", "u", "e", "r", "y", " ", "S", "t", "a", "r", "t">>,
       <<"Q", "u", "e", "r", "y", " ", "E", "n", "d">>,
       <<"S", "u", "b", "j", "e", "c", "t", " ", "S", "t", "a", "r", "t">>,
       <<"S", "u", "b", "j", "e", "c", "t", " ", "E", "n", "d">>,
       <<"Q", "u", "e", "r", "y", " ", "L", "e", "n", "g", "t", "h">>,
       <<"S", "t", "r", "a", "i", "n", " ", "L", "e", "n", "g", "t", "h">>,
       <<"e", "-", "v", "a", "l", "u", "e">> >>

headers ==
    << <<"Q", "u", "e", "r", "y">>,
       <<"M", "a", "t", "c", "h", "i", "n", "g", " ", "S", "t", "r", "a", "i", "n">>,
       <<"Q", "u", "e", "r", "y", " ", "C", "o", "v", "e", "r", "a", "g", "e">>,
       <<"P", "e", "r", "c", "e", "n", "t", " ", "I", "D">>,
       <<"I", "d", "e", "n", "t", "i", "t", "i", "e", "s">>,
       <<"A", "l", "i", "g", "n", "m", "e", "n", "t", " ", "L", "e", "n", "g", "t", "h">>,
       <<"Q", "u", "e", "r", "y", " ", "S", "t", "a", "r", "t">>,
       <<"Q", "u", "e", "r", "y", " ", "E", "n", "d">>,
       <<"S", "u", "b", "j", "e", "c", "t", " ", "S", "t", "a", "r", "t">>,
       <<"S", "u", "b", "j", "e", "c", "t", " ", "E", "n", "d">>,
       <<"Q", "u", "e", "r", "y", " ", "L", "e", "n", "g", "t", "h">>,
       <<"S", "t", "r", "a", "i", "n", " ", "L", "e", "n", "g", "t", "h">>,
       <<"e", "-", "v", "a", "l", "u", "e">> >>

\* what the writer makes of each element of a yielded tuple: a str as it is,
\* an int by str(), a float by repr()
FieldTexts(t) ==
    <<t[1], t[2], FloatRepr(t[3]), FloatRepr(t[4]), IntStr(t[5]), IntStr(t[6]),
      IntStr(t[7]), IntStr(t[8]), IntStr(t[9]), IntStr(t[10]), IntStr(t[11]),
      IntStr(t[12]), FloatRepr(t[13])>>

\* what the destination held before the run
OldContent == << <<"s", "t", "a", "l", "e", CR, LF>> >>

NoRow == <<>>

Init ==
    /\ num_top_results \in Tops
    /\ taken = <<>>
    /\ ai = 0
    /\ pc = "start"
    /\ hsp = NoRow
    /\ emitted = <<>>
    /\ file = OldContent
    /\ err = NoError

\* open(reportpath, 'w'): the destination is created or truncated
Open ==
    /\ pc = "start"
    /\ file' = <<>>
    /\ pc' = "opened"
    /\ UNCHANGED <<num_top_results, taken, ai, hsp, emitted, err>>

\* out.writerow(headers)
WriteHeader ==
    /\ pc = "opened"
    /\ file' = Append(file, writerow(headers))
    /\ pc' = "running"
    /\ UNCHANGED <<num_top_results, taken, ai, hsp, emitted, err>>

RECURSIVE TotalAlignments(_)
TotalAlignments(rs) ==
    IF rs = <<>> THEN 0
    ELSE Len(Head(rs).alignments) + TotalAlignments(Tail(rs))

\* the outer loop moving on after the first alignment of a record
NextResEarly(Records, limit) ==
    /\ pc = "running"
    /\ Len(taken) < limit
    /\ \E res \in Records :
          /\ TotalAlignments(taken) + Len(res.alignments) <= MaxAlignments
          /\ taken' = Append(taken, res)
    /\ ai' = 0
    /\ UNCHANGED <<num_top_results, pc, hsp, emitted, file, err>>

\* for res in result: the parser hands over the next record (at most limit
\* records, MaxAlignments alignments in all)
NextRes(Records, limit) ==
    /\ pc = "running"
    /\ SliceDone
    /\ Len(taken) < limit
    /\ \E res \in Records :
          /\ TotalAlignments(taken) + Len(res.alignments) <= MaxAlignments
          /\ taken' = Append(taken, res)
    /\ ai' = 0
    /\ UNCHANGED <<num_top_results, pc, hsp, emitted, file, err>>

\* the body of the inner loop up to the yield
Yield ==
    /\ pc = "running"
    /\ ~SliceDone
    /\ LET res == taken[Len(taken)]
           aln == Selected(res)[ai + 1]
       IN  /\ ~Raises(res, aln)
           /\ hsp' = Row(res, aln)
           /\ emitted' = Append(emitted,
                  [q |-> Len(taken), a |-> ai + 1, row |-> Row(res, aln)])
    /\ ai' = ai + 1
    /\ pc' = "yielded"
    /\ UNCHANGED <<num_top_results, taken, file, err>>

\* a failure that removes what was written
RaiseRollback ==
    /\ pc = "running"
    /\ ~SliceDone
    /\ LET res == taken[Len(taken)]
           aln == Selected(res)[ai + 1]
       IN  Raises(res, aln)
    /\ err' = ZeroDivisionError
    /\ pc' = "failed"
    /\ file' = <<>>
    /\ UNCHANGED <<num_top_results, taken, ai, hsp, emitted>>

\* a division of the body raises: the exception leaves the generator and
\* blast_report, the with statement closing the file on the way
Raise ==
    /\ pc = "running"
    /\ ~SliceDone
    /\ LET res == taken[Len(taken)]
           aln == Selected(res)[ai + 1]
       IN  Raises(res, aln)
    /\ err' = ZeroDivisionError
    /\ pc' = "failed"
    /\ UNCHANGED <<num_top_results, taken, ai, hsp, emitted, file>>

\* out.writerow(hsp)
WriteRow ==
    /\ pc = "yielded"
    /\ file' = Append(file, writerow(FieldTexts(hsp)))
    /\ pc' = "running"
    /\ UNCHANGED <<num_top_results, taken, ai, hsp, emitted, err>>

\* the parser has no further record: both loops end and the file is closed
Finish ==
    /\ pc = "running"
    /\ SliceDone
    /\ pc' = "done"
    /\ UNCHANGED <<num_top_results, taken, ai, hsp, emitted, file, err>>

Next ==
    \/ Open
    \/ WriteHeader
    \/ NextRes(StreamRecords, MaxQueries)
    \/ Yield
    \/ Raise
    \/ WriteRow
    \/ Finish

Spec == Init /\ [][Next]_vars

NextNum ==
    \/ Open
    \/ WriteHeader
    \/ NextRes(NumRecords, 1)
    \/ Yield
    \/ Raise
    \/ WriteRow
    \/ Finish

SpecNum == Init /\ [][NextNum]_vars

NextText ==
    \/ Open
    \/ WriteHeader
    \/ NextRes(ReportRecords, 1)
    \/ Yield
    \/ Raise
    \/ WriteRow
    \/ Finish

SpecText == Init /\ [][NextText]_vars

---------------------------------------------------------------------------
(* Reading the report back, and what a row is built from *)

\* a line split at every tab character: the k-th field lies between the
\* (k-1)-th and the k-th tab
SplitTab(s) ==
    LET T == {i \in 1..Len(s) : s[i] = TAB}
        n == Cardinality(T)
        P(k) == IF k = 0 THEN 0
                ELSE IF k = n + 1 THEN Len(s) + 1
                ELSE CHOOSE p \in T : Cardinality({q \in T : q < p}) = k - 1
    IN  [k \in 1..(n + 1) |-> SubSeq(s, P(k - 1) + 1, P(k) - 1)]

\* a written line without its line end
Chomp(s) == SubSeq(s, 1, Len(s) - 2)

ReadBack(line) == SplitTab(Chomp(line))

DigitVal(c) == CHOOSE d \in 0..9 : Digits[d + 1] = c

RECURSIVE ParseNat(_)
ParseNat(s) ==
    IF s = <<>> THEN 0
    ELSE 10 * ParseNat(SubSeq(s, 1, Len(s) - 1)) + DigitVal(s[Len(s)])

ParseInt(s) == IF s[1] = "-" THEN 0 - ParseNat(Tail(s)) ELSE ParseNat(s)

Pos(s, c) == CHOOSE i \in 1..Len(s) : s[i] = c

Pow10(n) == IF n = 0 THEN 1 ELSE IF n = 1 THEN 10 ELSE IF n = 2 THEN 100 ELSE 1000

\* the float a decimal text stands for: digits "." digits, or digits "e-" digits
ParseFloat(s) ==
    LET neg == s[1] = "-"
        u == IF neg THEN Tail(s) ELSE s
    IN  IF \E i \in 1..Len(u) : u[i] = "e"
        THEN [neg |-> neg, num |-> ParseNat(SubSeq(u, 1, Pos(u, "e") - 1)),
              den |-> 1,
              exp |-> 0 - ParseNat(SubSeq(u, Pos(u, "e") + 2, Len(u)))]
        ELSE [neg |-> neg,
              num |-> ParseNat(SubSeq(u, 1, Pos(u, ".") - 1)
                               \o SubSeq(u, Pos(u, ".") + 1, Len(u))),
              den |-> Pow10(Len(u) - Pos(u, ".")),
              exp |-> 0]

\* two floats of the same sign, exponent and magnitude
SameFloat(x, y) ==
    x.neg = y.neg /\ x.exp = y.exp /\ x.num * y.den = y.num * x.den

\* a row built from one record and one of its alignments: the identifiers and
\* lengths of the two, and the first segment of the alignment
BuiltFrom(row, res, aln) ==
    /\ row[1] = res.query
    /\ row[2] = aln.hit_def
    /\ row[3].num * Abs(res.query_length)
           = 100 * Abs(aln.hsps[1].align_length) * row[3].den
    /\ row[4].num * Abs(aln.hsps[1].align_length)
           = 100 * Abs(aln.hsps[1].identities) * row[4].den
    /\ row[5] = aln.hsps[1].identities
    /\ row[6] = aln.hsps[1].align_length
    /\ row[7] = aln.hsps[1].query_start
    /\ row[8] = aln.hsps[1].query_end
    /\ row[9] = aln.hsps[1].sbjct_start
    /\ row[10] = aln.hsps[1].sbjct_end
    /\ row[11] = res.query_length
    /\ row[12] = aln.length
    /\ row[13] = aln.hsps[1].expect

\* the matches of a record with k matches that top_n selects
TopCount(k) ==
    IF num_top_results >= 0 THEN Min(k, num_top_results)
    ELSE Max(k + num_top_results, 0)

\* the rows emitted for the j-th record, in emission order
RowsOf(j) == SelectSeq(emitted, LAMBDA e : e.q = j)

\* a match whose record or first segment cannot be divided by
Degenerate(res, aln) == aln.hsps[1].align_length = 0 \/ res.query_length = 0

---------------------------------------------------------------------------
(* Claims *)

\* C1: for top_n = n >= 0, a run that ends without a failure has emitted, for
\* a query with k matches, exactly min(k, n) rows, the i-th of them built from
\* the i-th match of that query.
C1_TopNRowsInOrder ==
    (pc = "done" /\ num_top_results >= 0) =>
        \A j \in 1..Len(taken) :
            LET rows == RowsOf(j)
                m == Min(Len(taken[j].alignments), num_top_results)
            IN  /\ Len(rows) = m
                /\ \A i \in 1..m :
                       /\ rows[i].a = i
                       /\ BuiltFrom(rows[i].row, taken[j], taken[j].alignments[i])

\* Scenario B: a query with 3 matches under top_n = 2 has given 2 rows
C1_Witness ==
    /\ pc = "done"
    /\ num_top_results = 2
    /\ \E j \in 1..Len(taken) :
           Len(taken[j].alignments) = 3 /\ Len(RowsOf(j)) = 2

\* t occurs in s
Contains(s, t) ==
    \E i \in 0..(Len(s) - Len(t)) : SubSeq(s, i + 1, i + Len(t)) = t

\* C2: a selected match whose first segment has alignment_length <= 0, or
\* whose query has query_length <= 0, gets no row, and the failure is a
\* DataError naming the query and the subject.
C2_DataErrorOnDegenerate ==
    /\ \A i \in 1..Len(emitted) :
           emitted[i].row[6] > 0 /\ emitted[i].row[11] > 0
    /\ pc = "failed" =>
           LET res == taken[Len(taken)]
               aln == res.alignments[ai + 1]
           IN  /\ err.type = "DataError"
               /\ Contains(err.msg, res.query)
               /\ Contains(err.msg, aln.hit_def)

\* the rows expected at a failure on record q: all selected rows of the
\* earlier records, and of q those before its first degenerate selected match
FirstDegenerate(res) ==
    CHOOSE f \in 1..TopCount(Len(res.alignments)) :
        /\ Degenerate(res, res.alignments[f])
        /\ \A g \in 1..(f - 1) : ~Degenerate(res, res.alignments[g])

ExpectedOrigins(q, f) ==
    {o \in (1..q) \X (1..MaxAlignments) :
        IF o[1] < q THEN o[2] <= TopCount(Len(taken[o[1]].alignments))
        ELSE o[2] <= f - 1}

Before(e1, e2) == e1.q < e2.q \/ (e1.q = e2.q /\ e1.a < e2.a)

\* C3: when the tabulator fails on a match of query q, the rows emitted are
\* exactly the rows of the selected matches of the earlier queries and of the
\* matches of q before the failing one, in order, each built from its match
\* alone; the failed run emits nothing more.
C3_RowsBeforeFailure ==
    pc = "failed" =>
        LET q == Len(taken)
            f == FirstDegenerate(taken[q])
        IN  /\ \E g \in 1..TopCount(Len(taken[q].alignments)) :
                   Degenerate(taken[q], taken[q].alignments[g])
            /\ {<<emitted[i].q, emitted[i].a>> : i \in 1..Len(emitted)}
                   = ExpectedOrigins(q, f)
            /\ \A i \in 1..(Len(emitted) - 1) : Before(emitted[i], emitted[i + 1])
            /\ \A i \in 1..Len(emitted) :
                   BuiltFrom(emitted[i].row, taken[emitted[i].q],
                             taken[emitted[i].q].alignments[emitted[i].a])
            /\ ~ENABLED Yield /\ ~ENABLED WriteRow

\* a failure on the second match of the second query, after rows of both
C3_Witness ==
    /\ pc = "failed"
    /\ Len(taken) = 2
    /\ ai = 1
    /\ Len(emitted) = 2
    /\ emitted[1].q = 1

ExpectedHeader ==
    << <<"Q", "u", "e", "r", "y">>,
       <<"M", "a", "t", "c", "h", "i", "n", "g", " ", "S", "t", "r", "a", "i", "n">>,
       <<"Q", "u", "e", "r", "y", " ", "C", "o", "v", "e", "r", "a", "g", "e">>,
       <<"P", "e", "r", "c", "e", "n", "t", " ", "I", "D">>,
       <<"I", "d", "e", "n", "t", "i", "t", "i", "e", "s">>,
       <<"A", "l", "i", "g", "n", "m", "e", "n", "t", " ", "L", "e", "n", "g", "t", "h">>,
       <<"Q", "u", "e", "r", "y", " ", "S", "t", "a", "r", "t">>,
       <<"Q", "u", "e", "r", "y", " ", "E", "n", "d">>,
       <<"S", "u", "b", "j", "e", "c", "t", " ", "S", "t", "a", "r", "t">>,
       <<"S", "u", "b", "j", "e", "c", "t", " ", "E", "n", "d">>,
       <<"Q", "u", "e", "r", "y", " ", "L", "e", "n", "g", "t", "h">>,
       <<"S", "t", "r", "a", "i", "n", " ", "L", "e", "n", "g", "t", "h">>,
       <<"e", "-", "v", "a", "l", "u", "e">> >>

RECURSIVE JoinTabs(_)
JoinTabs(fs) ==
    IF Len(fs) = 1 THEN fs[1] ELSE fs[1] \o <<TAB>> \o JoinTabs(Tail(fs))

\* the 13 names, a tab between two of them, and the line end
ExpectedHeaderLine == JoinTabs(ExpectedHeader) \o <<CR, LF>>

NoMatchSelected ==
    num_top_results = 0 \/ \A j \in 1..Len(taken) : taken[j].alignments = <<>>

\* C4: once the header is written it is the first line of the destination,
\* with the 13 column names in order, no later line is a header, and nothing
\* is in the destination before it; a run in which no match is selected
\* (top_n = 0, or no query has a match) does not fail and ends with the header
\* as the only line.
C4_HeaderFirstOnce ==
    /\ pc = "opened" => file = <<>>
    /\ pc \notin {"start", "opened"} =>
           /\ Len(file) >= 1
           /\ file[1] = ExpectedHeaderLine
           /\ \A i \in 2..Len(file) : file[i] # ExpectedHeaderLine
    /\ NoMatchSelected =>
           /\ pc # "failed"
           /\ emitted = <<>>
           /\ pc = "done" => Len(file) = 1

\* Scenario E: top_n = 0 over a query that has matches leaves the header alone
C4_Witness ==
    /\ pc = "done"
    /\ num_top_results = 0
    /\ \E j \in 1..Len(taken) : taken[j].alignments # <<>>
    /\ Len(file) = 1

\* a written line read back gives the 13 values of its row
RowReadsBack(line, row) ==
    LET f == ReadBack(line)
    IN  /\ Len(f) = 13
        /\ f[1] = row[1]
        /\ f[2] = row[2]
        /\ SameFloat(ParseFloat(f[3]), row[3])
        /\ SameFloat(ParseFloat(f[4]), row[4])
        /\ \A c \in 5..12 : ParseInt(f[c]) = row[c]
        /\ SameFloat(ParseFloat(f[13]), row[13])

Plain(s) == \A i \in 1..Len(s) : s[i] \notin {TAB, QUOTE, CR, LF}

\* C5 as stated: every written row, split at the tabs, gives back the 13
\* values of its MetricRow, whatever the identifiers.
C5_RoundTripAnyIdentifier ==
    \A i \in 2..Len(file) : RowReadsBack(file[i], emitted[i - 1].row)

\* C5 as amended: every written row whose two identifiers hold no tab, double
\* quote, carriage return or line feed, split at the tabs, gives back the 13
\* values of its MetricRow.
C5_RoundTripPlainIdentifiers ==
    \A i \in 2..Len(file) :
        (Plain(emitted[i - 1].row[1]) /\ Plain(emitted[i - 1].row[2])) =>
            RowReadsBack(file[i], emitted[i - 1].row)

\* a row of two-character plain identifiers is in the destination
C5_Witness ==
    /\ Len(file) = 2
    /\ emitted[1].row[1] = <<"a", "a">>
    /\ emitted[1].row[2] = <<"a", "a">>

\* C6: rows are emitted in query order, then match order; a query is taken
\* from the stream only when every selected row of the queries before it is
\* emitted; the destination holds the emitted rows in emission order, the
\* last one at the latest when the tabulator is resumed.
C6_StreamingOrder ==
    /\ \A i \in 1..(Len(emitted) - 1) : Before(emitted[i], emitted[i + 1])
    /\ \A j \in 1..(Len(taken) - 1) :
           Len(RowsOf(j)) = TopCount(Len(taken[j].alignments))
    /\ \A i \in 1..Len(emitted) : emitted[i].q <= Len(taken)
    /\ pc \in {"running", "yielded", "done", "failed"} =>
           /\ Len(file) - 1 = Len(emitted) - (IF pc = "yielded" THEN 1 ELSE 0)
           /\ \A i \in 2..Len(file) :
                  ReadBack(file[i])[2] = emitted[i - 1].row[2]

\* two queries, the first with two rows (of equal matches), the second with one
C6_Witness ==
    /\ pc = "done"
    /\ Len(taken) = 2
    /\ Len(RowsOf(1)) = 2
    /\ emitted[1].row = emitted[2].row
    /\ Len(RowsOf(2)) = 1
    /\ Len(file) = 4

\* C7: an emitted row of a segment with alignment_length >= 1 and
\* 0 <= identical_positions <= alignment_length has
\* identity_pct = 100 * identical_positions / alignment_length, within 0..100,
\* and 100 exactly when identical_positions = alignment_length.
C7_IdentityRange ==
    \A k \in 1..Len(emitted) :
        LET row == emitted[k].row
        IN  (row[6] >= 1 /\ 0 <= row[5] /\ row[5] <= row[6]) =>
                /\ row[4].num * row[6] = 100 * row[5] * row[4].den
                /\ row[4].neg = FALSE
                /\ row[4].num <= 100 * row[4].den
                /\ (row[4].num = 100 * row[4].den) <=> (row[5] = row[6])

\* a row of a perfect match and a row of a partial one
C7_Witness ==
    /\ emitted # <<>>
    /\ emitted[1].row[6] = MaxLen
    /\ emitted[1].row[5] = MaxLen
    /\ SameFloat(emitted[1].row[4], Hundred)

\* C8: the coverage of every emitted row is not negative and is the magnitude
\* of 100 * alignment_length / query_length.
C8_CoverageMagnitude ==
    \A k \in 1..Len(emitted) :
        LET row == emitted[k].row
        IN  /\ row[3].neg = FALSE
            /\ row[3].den > 0
            /\ row[3].num * Abs(row[11]) = 100 * Abs(row[6]) * row[3].den

\* a row of a negative alignment length over a positive query length
C8_Witness ==
    /\ emitted # <<>>
    /\ emitted[1].row[6] < 0
    /\ emitted[1].row[11] > 0
    /\ emitted[1].row[3].num > 0

\* what a row may depend on
OwnData(e) ==
    LET res == taken[e.q]
        aln == res.alignments[e.a]
    IN  <<res.query, res.query_length, aln.hit_def, aln.length, aln.hsps[1]>>

\* C9: an emitted row is built from its query's id and length, its match's
\* subject id and length and that match's first segment, and two rows that
\* agree on these are equal, whatever the other segments, the other matches
\* and the other queries are.
C9_RowFromOwnData ==
    /\ \A i \in 1..Len(emitted) :
           BuiltFrom(emitted[i].row, taken[emitted[i].q],
                     taken[emitted[i].q].alignments[emitted[i].a])
    /\ \A i, j \in 1..Len(emitted) :
           OwnData(emitted[i]) = OwnData(emitted[j]) =>
               emitted[i].row = emitted[j].row

\* two rows of the same data in two queries of different matches, the match
\* having a second segment and the second query a match beyond top_n
C9_Witness ==
    /\ num_top_results = 1
    /\ Len(emitted) = 2
    /\ emitted[1].q # emitted[2].q
    /\ OwnData(emitted[1]) = OwnData(emitted[2])
    /\ Len(taken[1].alignments[1].hsps) = 2
    /\ Len(taken[1].alignments) = 1
    /\ Len(taken[2].alignments) = 2
    /\ taken[2].alignments[2] # taken[2].alignments[1]

RECURSIVE LinesOf(_)
LinesOf(es) ==
    IF es = <<>> THEN <<>>
    ELSE <<writerow(FieldTexts(Head(es).row))>> \o LinesOf(Tail(es))

\* C10: from the opening on the previous content is gone; the header is in
\* the destination before the first query is taken; each row is written
\* before the tabulator goes on; a failed run leaves the header followed by
\* exactly the rows emitted before the failure.
C10_NoRollback ==
    /\ pc # "start" => \A i \in 1..Len(file) : file[i] # OldContent[1]
    /\ taken # <<>> => (Len(file) >= 1 /\ file[1] = ExpectedHeaderLine)
    /\ pc \in {"running", "done", "failed"} =>
           file = <<file[1]>> \o LinesOf(emitted)
    /\ pc = "yielded" =>
           file = <<file[1]>> \o LinesOf(SubSeq(emitted, 1, Len(emitted) - 1))

\* a failure after two rows: the destination holds the header and the two
C10_Witness ==
    /\ pc = "failed"
    /\ Len(emitted) = 2
    /\ Len(file) = 3
    /\ file[1] # OldContent[1]

===========================================================================
